---- MODULE Spec2Model ----
(***************************************************************************)
(* pacmine: a pacman-like package manager for Minecraft plugins and mods.  *)
(* Model of src/pacmine/__main__.py: version resolution (get_plugin), the   *)
(* installed-package manifest (.pacmine/installed.json), and the install   *)
(* and remove transactions (cmd_install, cmd_uninstall).                    *)
(*                                                                         *)
(* Strings that the program takes apart are sequences: a version string is *)
(* the sequence of its dot-separated components ("1.20.1" is               *)
(* <<"1","20","1">>), a package name or a query is the sequence of its      *)
(* characters.  A Python dict is the sequence of its values in insertion   *)
(* order (json.load and json.dump keep that order).                        *)
(***************************************************************************)
EXTENDS Integers, Sequences, FiniteSets, TLC

VARIABLES
  env,            \* .pacmine/env: [version, core]
  dirs,           \* directories that exist in the working directory
  files,          \* artifact files that exist: <<directory, filename>>
  manifest,       \* .pacmine/installed.json: [exists, packages]
  pc,             \* position of the running command
  cmd,            \* the running command: "none", "install", "uninstall"
  args,           \* args.packages of the running command
  idx,            \* loop index i of the running loop (1-based)
  dep_idx,        \* index into deps of the current plan item
  plan,           \* to_install / to_remove
  seen,           \* cmd_install's seen set
  pending,        \* the package handed to download(), not yet written
  log,            \* what the running command did to disk, in order
  start,          \* disk state when the running command started
  aborted,        \* some earlier command ended by an uncaught exception
  versions,       \* get_plugin: the registry's release list (r.json())
  target,         \* get_plugin: the version argument
  status_code,    \* get_plugin: r.status_code
  result          \* get_plugin: the returned value

vars == <<env, dirs, files, manifest, pc, cmd, args, idx, dep_idx, plan, seen,
          pending, log, start, aborted, versions, target, status_code, result>>

txVars == <<env, dirs, files, manifest, pc, cmd, args, idx, dep_idx, plan, seen,
            pending, log, start, aborted>>

resolveVars == <<versions, target, status_code, result>>

\* ---------------------------------------------------------------- bounds

MaxArgs == 2        \* length of args.packages
MaxReleases == 2    \* releases in one registry response
MaxGameVersions == 2 \* game_versions of one release

\* ------------------------------------------------------- Python helpers

\* Python's None; an uncaught exception leaving a function.
None == [py |-> "None"]
InvalidVersion == [py |-> "raise InvalidVersion"]

\* dict.get(key, default)
Get(d, key, default) == IF key \in DOMAIN d THEN d[key] ELSE default

SeqToSet(s) == {s[k] : k \in 1..Len(s)}

\* ------------------------------------------- packaging.version.parse

\* The decimal numerals that occur; any other component is not a number.
DecimalValue ==
  [c \in {"0", "1", "19", "20", "21"} |->
     CASE c = "0" -> 0 [] c = "1" -> 1 [] c = "19" -> 19
       [] c = "20" -> 20 [] c = "21" -> 21]

\* parse_version: the release tuple of a dotted numeric version; raises
\* InvalidVersion for the empty string and for any non-numeric component.
parse_version(s) ==
  IF s = <<>> \/ \E k \in 1..Len(s) : s[k] \notin DOMAIN DecimalValue
  THEN InvalidVersion
  ELSE [release |-> [k \in 1..Len(s) |-> DecimalValue[s[k]]]]

\* Version._key drops the trailing zeros of the release: 1.20 == 1.20.0.
RECURSIVE StripZeros(_)
StripZeros(r) ==
  IF r # <<>> /\ r[Len(r)] = 0 THEN StripZeros(SubSeq(r, 1, Len(r) - 1)) ELSE r

Key(v) == StripZeros(v.release)

\* tuple comparison of the keys
RECURSIVE TupleLess(_, _)
TupleLess(a, b) ==
  IF b = <<>> THEN FALSE
  ELSE IF a = <<>> THEN TRUE
  ELSE IF a[1] # b[1] THEN a[1] < b[1]
  ELSE TupleLess(Tail(a), Tail(b))

VersionEq(a, b) == Key(a) = Key(b)
VersionLess(a, b) == TupleLess(Key(a), Key(b))

\* ---------------------------------------------------------- get_plugin

\* Lines 91-100: the (release index, game version index) pairs in loop
\* order whose game version parses.
Pairs(vs) ==
  LET RECURSIVE Walk(_, _)
      Walk(i, j) ==
        IF i > Len(vs) THEN <<>>
        ELSE IF j > Len(Get(vs[i], "game_versions", <<>>)) THEN Walk(i + 1, 1)
        ELSE <<<<i, j>>>> \o Walk(i, j + 1)
  IN Walk(1, 1)

GameVersion(vs, p) == parse_version(vs[p[1]].game_versions[p[2]])

\* The last greatest element, where max() returns the first.
RECURSIVE MaxLast(_, _)
MaxLast(cands, best) ==
  IF cands = <<>> THEN best
  ELSE MaxLast(Tail(cands),
               IF VersionLess(Head(cands)[1], best[1]) THEN best ELSE Head(cands))

\* max(candidates, key=lambda x: x[0]): the first greatest element.
RECURSIVE MaxFirst(_, _)
MaxFirst(cands, best) ==
  IF cands = <<>> THEN best
  ELSE MaxFirst(Tail(cands),
                IF VersionLess(best[1], Head(cands)[1]) THEN Head(cands) ELSE best)

\* The selection loop with the try round the inner loop: a game version
\* that fails to parse ends the release it belongs to.
RECURSIVE SelectSkippingRelease(_, _, _, _)
SelectSkippingRelease(vs, tgt, ps, candidates) ==
  IF ps = <<>>
  THEN IF candidates # <<>>
       THEN MaxFirst(Tail(candidates), Head(candidates))[2]
       ELSE None
  ELSE LET gv_p == GameVersion(vs, Head(ps))
           v == vs[Head(ps)[1]]
           other(p) == p[1] # Head(ps)[1]
       IN IF gv_p = InvalidVersion
          THEN SelectSkippingRelease(vs, tgt, SelectSeq(ps, other), candidates)
          ELSE IF VersionEq(gv_p, tgt) THEN v
          ELSE IF VersionLess(gv_p, tgt)
               THEN SelectSkippingRelease(vs, tgt, Tail(ps),
                                          Append(candidates, <<gv_p, v>>))
               ELSE SelectSkippingRelease(vs, tgt, Tail(ps), candidates)

\* Lines 89-103: the selection loop over a non-empty release list.
RECURSIVE Select(_, _, _, _)
Select(vs, tgt, ps, candidates) ==
  IF ps = <<>>
  THEN IF candidates # <<>>
       THEN MaxFirst(Tail(candidates), Head(candidates))[2]
       ELSE None
  ELSE LET gv_p == GameVersion(vs, Head(ps))
           v == vs[Head(ps)[1]]
       IN IF gv_p = InvalidVersion THEN Select(vs, tgt, Tail(ps), candidates)
          ELSE IF VersionEq(gv_p, tgt) THEN v
          ELSE IF VersionLess(gv_p, tgt)
               THEN Select(vs, tgt, Tail(ps), Append(candidates, <<gv_p, v>>))
               ELSE Select(vs, tgt, Tail(ps), candidates)

\* get_plugin with "if version is None" where line 86 tests "not version":
\* the empty string reaches parse_version.
get_plugin_parsing_empty(r, version) ==
  IF r.status_code # 200 THEN None
  ELSE IF r.json = <<>> THEN None
  ELSE LET tgt == parse_version(version)
       IN IF tgt = InvalidVersion THEN InvalidVersion
          ELSE Select(r.json, tgt, Pairs(r.json), <<>>)

\* get_plugin(project_id, core, version) on the registry's response r.
get_plugin(r, version) ==
  IF r.status_code # 200 THEN None
  ELSE IF r.json = <<>> THEN None
  ELSE IF version = <<>> THEN r.json[1]
  ELSE LET tgt == parse_version(version)
       IN IF tgt = InvalidVersion THEN InvalidVersion
          ELSE Select(r.json, tgt, Pairs(r.json), <<>>)

\* ------------------------------------------------- cores and directories

\* COMPATIBILITY_MAP restricted to the cores the model runs.
COMPATIBILITY_MAP ==
  [core \in {"paper", "fabric"} |->
     IF core = "paper" THEN <<"paper", "spigot", "bukkit">> ELSE <<"fabric">>]

is_mod_loader(core) == core \in {"fabric", "forge", "neoforge", "quilt"}

get_install_dir(core) == IF is_mod_loader(core) THEN "mods" ELSE "plugins"

\* --------------------------------------------------------- str methods

\* str.lower() on the characters that occur.
LowerChar(c) == CASE c = "L" -> "l" [] c = "Z" -> "z" [] OTHER -> c

lower(s) == [k \in 1..Len(s) |-> LowerChar(s[k])]

\* q in s (substring test)
Contains(s, q) ==
  \E k \in 0..(Len(s) - Len(q)) : SubSeq(s, k + 1, k + Len(q)) = q

\* ------------------------------------------------------- the registry

Projects == {"P1", "P2", "P3"}

Dep(pid, type) == [project_id |-> pid, dependency_type |-> type]

\* A dependency whose project_id is null: dep.get("project_id") is None.
NullDep(type) == [dependency_type |-> type]

\* One release (a Modrinth version object).
Release(id, pid, name, loaders, gvs, filename, deps) ==
  [id |-> id, project_id |-> pid, name |-> name, loaders |-> loaders,
   game_versions |-> gvs,
   files |-> <<[filename |-> filename, url |-> <<"cdn", id>>]>>,
   dependencies |-> deps]

P1Deps == <<Dep("P2", "required"), Dep("P3", "optional"), NullDep("required")>>

\* The registry's release lists, in the registry's order (newest first).
\* P1 "Lu" requires P2; P2 "lum" requires P3; P3 "Zed" (slug "lu") requires
\* P2 and ships the same filename as P1.
Catalog ==
  [pid \in Projects |->
     CASE pid = "P1" ->
            <<Release("p1-2", "P1", <<"L", "u">>, {"bukkit", "fabric"},
                      <<<<"1", "21">>>>, "a.jar", P1Deps),
              Release("p1-1", "P1", <<"L", "u">>, {"spigot"},
                      <<<<"1", "20">>, <<"1", "19">>>>, "a.jar", P1Deps)>>
       [] pid = "P2" ->
            <<Release("p2-1", "P2", <<"l", "u", "m">>, {"bukkit", "fabric"},
                      <<<<"23w13a">>, <<"1", "19">>>>, "b.jar",
                      <<Dep("P3", "required")>>)>>
       [] pid = "P3" ->
            <<Release("p3-1", "P3", <<"Z", "e", "d">>, {"bukkit", "fabric"},
                      <<<<"1", "21">>>>, "a.jar", <<Dep("P2", "required")>>)
                @@ [slug |-> <<"l", "u">>]>>]

\* GET /v2/project/{project_id}/version?loaders=...: the releases built for
\* one of the loaders, or an error status.
ListReleases(pid, loaders, sc) ==
  [status_code |-> sc,
   json |-> IF sc = 200
            THEN LET ok(v) == v.loaders \cap SeqToSet(loaders) # {}
                 IN SelectSeq(Catalog[pid], ok)
            ELSE <<>>]

\* GET /v2/search: the projects whose name contains the query, best first.
SearchIndex == <<"P1", "P2", "P3">>

search_plugins(query, core) ==
  LET hit(pid) == Contains(lower(Catalog[pid][1].name), lower(query))
  IN [hits |-> [k \in 1..Len(SelectSeq(SearchIndex, hit)) |->
                  [project_id |-> SelectSeq(SearchIndex, hit)[k]]]]

StatusCodes == {200, 404}

Queries == {<<"l", "u">>, <<"l", "u", "m">>, <<"z">>, <<"q">>}

ArgLists == UNION {[1..n -> Queries] : n \in 1..MaxArgs}

\* ------------------------------------------------------- ManifestStore

\* A dict of packages keyed by project_id, in insertion order.
Keys(packages) == {packages[k].project_id : k \in 1..Len(packages)}

Lookup(packages, pid) ==
  packages[CHOOSE k \in 1..Len(packages) : packages[k].project_id = pid]

\* packages.append(package) where a dict assignment was meant.
DictSetAppending(packages, pid, package) == Append(packages, package)

\* packages[pid] = package: in place when the key exists, else appended.
DictSet(packages, pid, package) ==
  IF pid \in Keys(packages)
  THEN [k \in 1..Len(packages) |->
          IF packages[k].project_id = pid THEN package ELSE packages[k]]
  ELSE Append(packages, package)

\* packages.popitem() where del packages[pid] was meant.
DictDelLast(packages, pid) == SubSeq(packages, 1, Len(packages) - 1)

\* del packages[pid]
DictDel(packages, pid) ==
  LET keep(p) == p.project_id # pid IN SelectSeq(packages, keep)

\* get_installed_packages(): the file after the call (created empty when
\* it was absent) ...
get_installed_packages_file(m) ==
  IF ~m.exists THEN [exists |-> TRUE, packages |-> <<>>] ELSE m

\* ... and the dict it returns.
get_installed_packages(m) == get_installed_packages_file(m).packages

\* save_installed_packages(packages): the file after the call.
save_installed_packages(packages) == [exists |-> TRUE, packages |-> packages]

\* add_package(package): the manifest file after the call.
add_package(m, package) ==
  save_installed_packages(
    DictSet(get_installed_packages(m), package.project_id, package))

\* remove_package without the os.remove of lines 146-147.
remove_package_keeping_file(m, fs, package, core) ==
  LET packages == get_installed_packages(m)
      pid == package.project_id
  IN IF pid \in Keys(packages)
     THEN [manifest |-> save_installed_packages(DictDel(packages, pid)),
           files |-> fs,
           removed |-> {},
           raised |-> FALSE]
     ELSE [manifest |-> get_installed_packages_file(m),
           files |-> fs,
           removed |-> {},
           raised |-> FALSE]

\* remove_package with lines 148-149 inside the os.path.exists test.
remove_package_requiring_file(m, fs, package, core) ==
  LET packages == get_installed_packages(m)
      pid == package.project_id
      filepath == <<get_install_dir(core),
                    Lookup(packages, pid).files[1].filename>>
  IN IF pid \in Keys(packages) /\ filepath \in fs
     THEN [manifest |-> save_installed_packages(DictDel(packages, pid)),
           files |-> fs \ {filepath},
           removed |-> {filepath},
           raised |-> FALSE]
     ELSE [manifest |-> get_installed_packages_file(m),
           files |-> fs,
           removed |-> {},
           raised |-> FALSE]

\* remove_package without the test of line 142: packages[pid] raises
\* KeyError when the key is gone.
remove_package_unguarded(m, fs, package, core) ==
  LET packages == get_installed_packages(m)
      pid == package.project_id
  IN IF pid \in Keys(packages)
     THEN LET filepath == <<get_install_dir(core),
                            Lookup(packages, pid).files[1].filename>>
          IN [manifest |-> save_installed_packages(DictDel(packages, pid)),
              files |-> fs \ {filepath},
              removed |-> fs \cap {filepath},
              raised |-> FALSE]
     ELSE [manifest |-> get_installed_packages_file(m),
           files |-> fs,
           removed |-> {},
           raised |-> TRUE]

\* remove_package(package, core): the manifest file and the artifact files
\* after the call, the files it deleted, and whether it raised (no
\* statement of lines 139-149 does: every access is guarded).
remove_package(m, fs, package, core) ==
  LET packages == get_installed_packages(m)
      pid == package.project_id
  IN IF pid \in Keys(packages)
     THEN LET filepath == <<get_install_dir(core),
                            Lookup(packages, pid).files[1].filename>>
          IN [manifest |-> save_installed_packages(DictDel(packages, pid)),
              files |-> fs \ {filepath},
              removed |-> fs \cap {filepath},
              raised |-> FALSE]
     ELSE [manifest |-> get_installed_packages_file(m),
           files |-> fs,
           removed |-> {},
           raised |-> FALSE]

ArtifactPath(package, core) ==
  <<get_install_dir(core), package.files[1].filename>>

\* ------------------------------------------------------------ download

\* download(package, core): the install directory is created, then the
\* artifact is fetched (httpx.get raises on a network error or a timeout)
\* and written.
download(fs, ds, package, core, fetched) ==
  [dirs |-> ds \cup {get_install_dir(core)},
   files |-> IF fetched THEN fs \cup {ArtifactPath(package, core)} ELSE fs,
   raised |-> ~fetched]

\* ------------------------------------------------------------- commands

Terminal == {"done", "cancelled", "failed", "crashed"}

\* The exit status of a finished command: sys.exit(1), sys.exit(0), a
\* normal return, or an uncaught exception (the interpreter exits with 1).
ExitCode(p) == IF p \in {"failed", "crashed"} THEN 1 ELSE 0

Disk == [manifest |-> manifest, files |-> files, dirs |-> dirs]

NoPackage == [py |-> "no package"]
Pending == [py |-> "pending"]

\* deps without the dependency_type filter of line 215.
RequiredDepsAnyType(package) == Get(package, "dependencies", <<>>)

\* deps = [d for d in package.get("dependencies", []) if ... == "required"]
RequiredDeps(package) ==
  LET required(d) == Get(d, "dependency_type", "") = "required"
  IN SelectSeq(Get(package, "dependencies", <<>>), required)

\* Line 217 without the seen test.
UnseenDependencyIgnoringSeen(dep, seen_ids) ==
  Get(dep, "project_id", "") # ""

\* Line 217: the dependency names a project that is not yet in seen.
UnseenDependency(dep, seen_ids) ==
  Get(dep, "project_id", "") # "" /\ dep.project_id \notin seen_ids

\* main(): pacmine -S PACKAGE... ; cmd_install up to the search loop.
StartInstall ==
  /\ pc = "idle"
  /\ \E a \in ArgLists :
       /\ args' = a
       /\ cmd' = "install"
       /\ pc' = "i_search"
       /\ idx' = 1
       /\ plan' = <<>>
       /\ seen' = {}
       /\ log' = <<>>
       /\ start' = Disk
  /\ UNCHANGED <<env, dirs, files, manifest, dep_idx, pending, aborted, resolveVars>>

\* What the registry answered to request number i: no hit (status 0 stands
\* for "not asked"), or the status of the release list of the top hit.
Answer(i, hit, sc) == [op |-> "search", request |-> i, hit |-> hit, sc |-> sc]

\* The search loop with sys.exit(1) where line 183 continues.
InstallSearchExitOnMiss ==
  /\ pc = "i_search"
  /\ idx <= Len(args)
  /\ LET hits == search_plugins(args[idx], env.core).hits
     IN IF hits = <<>>
        THEN /\ pc' = "failed"
             /\ log' = Append(log, Answer(idx, FALSE, 0))
             /\ UNCHANGED <<idx, plan, seen>>
        ELSE \E sc \in StatusCodes :
               LET project == get_plugin(
                     ListReleases(hits[1].project_id,
                                  COMPATIBILITY_MAP[env.core], sc),
                     env.version)
               IN /\ log' = Append(log, Answer(idx, TRUE, sc))
                  /\ IF project = InvalidVersion
                     THEN /\ pc' = "crashed"
                          /\ UNCHANGED <<idx, plan, seen>>
                     ELSE IF project = None \/ project.project_id \in seen
                     THEN /\ idx' = idx + 1
                          /\ UNCHANGED <<pc, plan, seen>>
                     ELSE /\ seen' = seen \cup {project.project_id}
                          /\ plan' = Append(plan, project)
                          /\ idx' = idx + 1
                          /\ UNCHANGED pc
  /\ UNCHANGED <<env, dirs, files, manifest, cmd, args, dep_idx, pending,
                 start, aborted, resolveVars>>

\* One iteration of the search loop (lines 176-196).
InstallSearch ==
  /\ pc = "i_search"
  /\ idx <= Len(args)
  /\ LET hits == search_plugins(args[idx], env.core).hits
     IN IF hits = <<>>
        THEN /\ idx' = idx + 1
             /\ log' = Append(log, Answer(idx, FALSE, 0))
             /\ UNCHANGED <<pc, plan, seen>>
        ELSE \E sc \in StatusCodes :
               LET project == get_plugin(
                     ListReleases(hits[1].project_id,
                                  COMPATIBILITY_MAP[env.core], sc),
                     env.version)
               IN /\ log' = Append(log, Answer(idx, TRUE, sc))
                  /\ IF project = InvalidVersion
                     THEN /\ pc' = "crashed"
                          /\ UNCHANGED <<idx, plan, seen>>
                     ELSE IF project = None \/ project.project_id \in seen
                     THEN /\ idx' = idx + 1
                          /\ UNCHANGED <<pc, plan, seen>>
                     ELSE /\ seen' = seen \cup {project.project_id}
                          /\ plan' = Append(plan, project)
                          /\ idx' = idx + 1
                          /\ UNCHANGED pc
  /\ UNCHANGED <<env, dirs, files, manifest, cmd, args, dep_idx, pending,
                 start, aborted, resolveVars>>

\* After the search loop (lines 198-204): nothing to install exits with 1.
InstallPlanned ==
  /\ pc = "i_search"
  /\ idx > Len(args)
  /\ pc' = IF plan = <<>> THEN "failed" ELSE "i_confirm"
  /\ UNCHANGED <<env, dirs, files, manifest, cmd, args, idx, dep_idx, plan,
                 seen, pending, log, start, aborted, resolveVars>>

\* The confirmation asked after os.makedirs(install_dir).
InstallConfirmAfterMakedirs ==
  /\ pc = "i_confirm"
  /\ dirs' = dirs \cup {get_install_dir(env.core)}
  /\ \E yes \in BOOLEAN :
       IF yes
       THEN /\ pc' = "i_deps"
            /\ idx' = 1
            /\ dep_idx' = 1
       ELSE /\ pc' = "cancelled"
            /\ UNCHANGED <<idx, dep_idx>>
  /\ UNCHANGED <<env, files, manifest, cmd, args, plan, seen, pending,
                 log, start, aborted, resolveVars>>

\* confirm("Proceed with installation?") (lines 206-210).
InstallConfirm ==
  /\ pc = "i_confirm"
  /\ \E yes \in BOOLEAN :
       IF yes
       THEN /\ pc' = "i_deps"
            /\ idx' = 1
            /\ dep_idx' = 1
       ELSE /\ pc' = "cancelled"
            /\ UNCHANGED <<idx, dep_idx>>
  /\ UNCHANGED <<env, dirs, files, manifest, cmd, args, plan, seen, pending,
                 log, start, aborted, resolveVars>>

\* One iteration of the dependency loop of the current item (lines
\* 216-221), up to and including add_package(dep_pkg).
InstallDependency ==
  /\ pc = "i_deps"
  /\ idx <= Len(plan)
  /\ dep_idx <= Len(RequiredDeps(plan[idx]))
  /\ LET dep == RequiredDeps(plan[idx])[dep_idx]
     IN IF UnseenDependency(dep, seen)
        THEN \E sc \in StatusCodes :
               LET dep_pkg == get_plugin(
                     ListReleases(dep.project_id,
                                  COMPATIBILITY_MAP[env.core], sc),
                     env.version)
               IN IF dep_pkg = InvalidVersion
                  THEN /\ pc' = "crashed"
                       /\ UNCHANGED <<dep_idx, seen, manifest, pending, log>>
                  ELSE IF dep_pkg = None
                  THEN /\ dep_idx' = dep_idx + 1
                       /\ UNCHANGED <<pc, seen, manifest, pending, log>>
                  ELSE /\ seen' = seen \cup {dep_pkg.project_id}
                       /\ manifest' = add_package(manifest, dep_pkg)
                       /\ log' = Append(log, [op |-> "add",
                                              pid |-> dep_pkg.project_id])
                       /\ pending' = dep_pkg
                       /\ pc' = "i_download_dep"
                       /\ UNCHANGED dep_idx
        ELSE /\ dep_idx' = dep_idx + 1
             /\ UNCHANGED <<pc, seen, manifest, pending, log>>
  /\ UNCHANGED <<env, dirs, files, cmd, args, idx, plan, start, aborted, resolveVars>>

\* download(dep_pkg, core) (line 222): an exception ends the process.
DownloadDependency ==
  /\ pc = "i_download_dep"
  /\ \E fetched \in BOOLEAN :
       LET d == download(files, dirs, pending, env.core, fetched)
       IN /\ files' = d.files
          /\ dirs' = d.dirs
          /\ IF d.raised
             THEN /\ pc' = "crashed"
                  /\ log' = Append(log, [op |-> "fail",
                                         pid |-> pending.project_id])
                  /\ UNCHANGED <<dep_idx, pending>>
             ELSE /\ pc' = "i_deps"
                  /\ log' = Append(log, [op |-> "write",
                                         pid |-> pending.project_id])
                  /\ dep_idx' = dep_idx + 1
                  /\ pending' = NoPackage
  /\ UNCHANGED <<env, manifest, cmd, args, idx, plan, seen, start, aborted, resolveVars>>

\* add_package(package) (line 225), once the dependencies are done.
InstallRecord ==
  /\ pc = "i_deps"
  /\ idx <= Len(plan)
  /\ dep_idx > Len(RequiredDeps(plan[idx]))
  /\ manifest' = add_package(manifest, plan[idx])
  /\ log' = Append(log, [op |-> "add", pid |-> plan[idx].project_id])
  /\ pending' = plan[idx]
  /\ pc' = "i_download"
  /\ UNCHANGED <<env, dirs, files, cmd, args, idx, dep_idx, plan, seen, start,
                 aborted, resolveVars>>

\* download(package, core) (line 226), then the next plan item.
DownloadPackage ==
  /\ pc = "i_download"
  /\ \E fetched \in BOOLEAN :
       LET d == download(files, dirs, pending, env.core, fetched)
       IN /\ files' = d.files
          /\ dirs' = d.dirs
          /\ IF d.raised
             THEN /\ pc' = "crashed"
                  /\ log' = Append(log, [op |-> "fail",
                                         pid |-> pending.project_id])
                  /\ UNCHANGED <<idx, dep_idx, pending>>
             ELSE /\ pc' = "i_deps"
                  /\ log' = Append(log, [op |-> "write",
                                         pid |-> pending.project_id])
                  /\ idx' = idx + 1
                  /\ dep_idx' = 1
                  /\ pending' = NoPackage
  /\ UNCHANGED <<env, manifest, cmd, args, plan, seen, start, aborted, resolveVars>>

\* The install loop is exhausted: ":: Installation complete." (line 230).
InstallComplete ==
  /\ pc = "i_deps"
  /\ idx > Len(plan)
  /\ pc' = "done"
  /\ UNCHANGED <<env, dirs, files, manifest, cmd, args, idx, dep_idx, plan,
                 seen, pending, log, start, aborted, resolveVars>>

\* The matching test of line 246 for one manifest entry.
Matches(p, query) ==
  LET query_lower == lower(query)
      name == lower(Get(p, "title", Get(p, "name", <<>>)))
      slug == lower(Get(p, "slug", <<>>))
  IN query_lower = name \/ Contains(name, query_lower) \/ query_lower = slug

\* Lines 242-248: the first entry, in dict order, that matches; else None.
Found(packages, query) ==
  IF \E k \in 1..Len(packages) : Matches(packages[k], query)
  THEN packages[CHOOSE k \in 1..Len(packages) :
                  /\ Matches(packages[k], query)
                  /\ \A h \in 1..(k - 1) : ~Matches(packages[h], query)]
  ELSE None

\* Lines 240-252: to_remove for the queries, in query order.
RECURSIVE ToRemove(_, _)
ToRemove(packages, queries) ==
  IF queries = <<>> THEN <<>>
  ELSE LET found == Found(packages, Head(queries))
       IN (IF found # None THEN <<found>> ELSE <<>>)
            \o ToRemove(packages, Tail(queries))

\* main(): pacmine -R PACKAGE... ; cmd_uninstall up to the confirmation
\* (lines 233-260): the manifest is read (and created when absent), the
\* queries are matched, nothing to remove exits with 1.
StartUninstall ==
  /\ pc = "idle"
  /\ \E a \in ArgLists :
       LET to_remove == ToRemove(get_installed_packages(manifest), a)
       IN /\ args' = a
          /\ cmd' = "uninstall"
          /\ plan' = to_remove
          /\ pc' = IF to_remove = <<>> THEN "failed" ELSE "u_confirm"
  /\ manifest' = get_installed_packages_file(manifest)
  /\ idx' = 1
  /\ log' = <<>>
  /\ start' = Disk
  /\ UNCHANGED <<env, dirs, files, dep_idx, seen, pending, aborted, resolveVars>>

\* confirm("Proceed with removal?") (lines 262-264).
UninstallConfirm ==
  /\ pc = "u_confirm"
  /\ \E yes \in BOOLEAN : pc' = IF yes THEN "u_remove" ELSE "cancelled"
  /\ UNCHANGED <<env, dirs, files, manifest, cmd, args, idx, dep_idx, plan,
                 seen, pending, log, start, aborted, resolveVars>>

\* One iteration of the removal loop (lines 266-269).
UninstallRemove ==
  /\ pc = "u_remove"
  /\ idx <= Len(plan)
  /\ LET r == remove_package(manifest, files, plan[idx], env.core)
     IN /\ manifest' = r.manifest
        /\ files' = r.files
        /\ log' = Append(log, [op |-> "remove",
                               pid |-> plan[idx].project_id,
                               removed |-> r.removed])
        /\ IF r.raised
           THEN pc' = "crashed" /\ UNCHANGED idx
           ELSE idx' = idx + 1 /\ UNCHANGED pc
  /\ UNCHANGED <<env, dirs, cmd, args, dep_idx, plan, seen, pending, start,
                 aborted, resolveVars>>

\* The removal loop is exhausted: ":: Removal complete." (line 271).
UninstallComplete ==
  /\ pc = "u_remove"
  /\ idx > Len(plan)
  /\ pc' = "done"
  /\ UNCHANGED <<env, dirs, files, manifest, cmd, args, idx, dep_idx, plan,
                 seen, pending, log, start, aborted, resolveVars>>

\* The process ends; the working directory stays as the command left it.
Exit ==
  /\ pc \in Terminal
  /\ pc' = "idle"
  /\ cmd' = "none"
  /\ args' = <<>>
  /\ idx' = 1
  /\ dep_idx' = 1
  /\ plan' = <<>>
  /\ seen' = {}
  /\ pending' = NoPackage
  /\ log' = <<>>
  /\ start' = Disk
  /\ aborted' = (aborted \/ pc = "crashed")
  /\ UNCHANGED <<env, dirs, files, manifest, resolveVars>>

\* ------------------------------------------------------- specifications

\* The version strings of the environment: a release, none, a snapshot.
EnvVersions == {<<"1", "20">>, <<>>, <<"23w13a">>}

\* The working directory after pacmine -I: .pacmine/env exists, nothing is
\* installed.
InitDisk ==
  /\ env \in [version : EnvVersions, core : DOMAIN COMPATIBILITY_MAP]
  /\ dirs = {".pacmine"}
  /\ files = {}
  /\ manifest = [exists |-> FALSE, packages |-> <<>>]

InitIdle ==
  /\ pc = "idle"
  /\ cmd = "none"
  /\ args = <<>>
  /\ idx = 1
  /\ dep_idx = 1
  /\ plan = <<>>
  /\ seen = {}
  /\ pending = NoPackage
  /\ log = <<>>
  /\ start = Disk
  /\ aborted = FALSE

Init ==
  /\ InitDisk
  /\ InitIdle
  /\ versions = <<>>
  /\ target = <<>>
  /\ status_code = 200
  /\ result = Pending

Next ==
  \/ StartInstall
  \/ InstallSearch
  \/ InstallPlanned
  \/ InstallConfirm
  \/ InstallDependency
  \/ DownloadDependency
  \/ InstallRecord
  \/ DownloadPackage
  \/ InstallComplete
  \/ StartUninstall
  \/ UninstallConfirm
  \/ UninstallRemove
  \/ UninstallComplete
  \/ Exit

Spec == Init /\ [][Next]_vars

\* get_plugin on every registry response within the bounds.
GameVersionStrings == {<<"1", "19">>, <<"1", "20", "0">>, <<"23w13a">>}

TargetVersions ==
  {<<>>, <<"1", "19">>, <<"1", "20">>, <<"1", "21">>, <<"23w13a">>}

GameVersionLists ==
  UNION {[1..n -> GameVersionStrings] : n \in 0..MaxGameVersions}

\* The release list whose k-th release has id k and game versions g[k].
ReleaseList(g) == [k \in DOMAIN g |-> [id |-> k, game_versions |-> g[k]]]

InitResolve ==
  /\ env = [version |-> <<>>, core |-> "paper"]
  /\ dirs = {".pacmine"}
  /\ files = {}
  /\ manifest = [exists |-> FALSE, packages |-> <<>>]
  /\ InitIdle
  /\ \E n \in 0..MaxReleases :
       \E g \in [1..n -> GameVersionLists] : versions = ReleaseList(g)
  /\ target \in TargetVersions
  /\ status_code \in StatusCodes
  /\ result = Pending

\* r = httpx.get(...); the call returns or raises.
Resolve ==
  /\ result = Pending
  /\ result' = get_plugin([status_code |-> status_code, json |-> versions],
                          target)
  /\ UNCHANGED <<txVars, versions, target, status_code>>

NextResolve == Resolve

SpecResolve == InitResolve /\ [][NextResolve]_vars

\* ------------------------------------------------------------- claims

Ops(op) == {k \in 1..Len(log) : log[k].op = op}

InstalledKeys == Keys(manifest.packages)

\* C1: in install mode the manifest entry of an item is upserted only
\* after that item's artifact has been written, so an item whose download
\* fails has no manifest entry created for it.
C1_WriteThenRecord ==
  cmd = "install" =>
    /\ \A k \in Ops("add") :
         \E j \in Ops("write") : j < k /\ log[j].pid = log[k].pid
    /\ \A k \in Ops("fail") :
         \A j \in Ops("add") : log[j].pid # log[k].pid

\* Every manifest record has its artifact in the install directory.
Consistent(m, fs) ==
  \A k \in 1..Len(m.packages) : ArtifactPath(m.packages[k], env.core) \in fs

\* C2: after any sequence of install and remove transactions that each ran
\* to normal completion, every manifest record has its file on disk.
C2_ManifestMatchesFiles ==
  (pc \in {"idle", "done", "cancelled", "failed"} /\ ~aborted)
    => Consistent(manifest, files)

\* C3: a command cancelled at the confirmation leaves the manifest file,
\* the artifact files and the directories as they were when it started.
C3_CancelNoSideEffects == pc = "cancelled" => Disk = start

C3_Witness ==
  /\ pc = "cancelled"
  /\ cmd = "uninstall"
  /\ manifest.packages # <<>>
  /\ files # {}

\* C4: within one cmd_install call no project_id is recorded or downloaded
\* more than once.
C4_NoDuplicateInstall ==
  cmd = "install" =>
    \A op \in {"add", "write"} :
      \A j, k \in Ops(op) : log[j].pid = log[k].pid => j = k

\* P2 is requested after P1, which requires it, and the install finished.
C4_Witness ==
  /\ pc = "done"
  /\ cmd = "install"
  /\ Len(plan) = 2
  /\ plan[1].project_id = "P1"
  /\ plan[2].project_id = "P2"
  /\ Cardinality(Ops("write")) = 2

\* A game version string equal to the target: the same string, or both
\* parse and compare equal.
EqualsTarget(gv) ==
  \/ gv = target
  \/ /\ parse_version(gv) # InvalidVersion
     /\ parse_version(target) # InvalidVersion
     /\ VersionEq(parse_version(gv), parse_version(target))

ListsTarget(v) ==
  \E j \in 1..Len(v.game_versions) : EqualsTarget(v.game_versions[j])

\* A game version string at or below the target.
AtOrBelowTarget(gv) ==
  /\ parse_version(gv) # InvalidVersion
  /\ parse_version(target) # InvalidVersion
  /\ \/ VersionEq(parse_version(gv), parse_version(target))
     \/ VersionLess(parse_version(gv), parse_version(target))

\* A game version string above the target.
AboveTarget(gv) ==
  /\ parse_version(gv) # InvalidVersion
  /\ parse_version(target) # InvalidVersion
  /\ VersionLess(parse_version(target), parse_version(gv))

\* get_plugin has answered a successful response for a non-empty target.
Resolved == result # Pending /\ status_code = 200 /\ target # <<>>

\* C5: when some release lists a game version equal to the non-empty
\* target, get_plugin returns the first such release in list order.
C5_ExactMatchPrecedence ==
  (Resolved /\ \E i \in 1..Len(versions) : ListsTarget(versions[i]))
    => result = versions[CHOOSE i \in 1..Len(versions) :
                           /\ ListsTarget(versions[i])
                           /\ \A h \in 1..(i - 1) : ~ListsTarget(versions[h])]

\* C6: with no exact match, get_plugin never returns a release all of whose
\* game versions exceed the target, and returns None when no release has a
\* game version at or below the target.
C6_FloorProperty ==
  (Resolved /\ \A i \in 1..Len(versions) : ~ListsTarget(versions[i]))
    => /\ \A i \in 1..Len(versions) :
            (/\ versions[i].game_versions # <<>>
             /\ \A j \in 1..Len(versions[i].game_versions) :
                  AboveTarget(versions[i].game_versions[j]))
              => result # versions[i]
       /\ (\A i \in 1..Len(versions) :
             \A j \in 1..Len(versions[i].game_versions) :
               ~AtOrBelowTarget(versions[i].game_versions[j]))
            => result = None

Pids(op) == {log[k].pid : k \in Ops(op)}

\* C7: when the download of one plan item fails, every other plan item is
\* still recorded and written before the command ends.
C7_FailureIsolation ==
  (cmd = "install" /\ pc \in Terminal /\ Ops("fail") # {})
    => \A k \in 1..Len(plan) :
         plan[k].project_id \notin Pids("fail")
           => plan[k].project_id \in Pids("add") \cap Pids("write")

Entries(packages, pid) ==
  {k \in 1..Len(packages) : packages[k].project_id = pid}

\* C8: a completed install of a project that was not in the manifest leaves
\* exactly one entry for it, holding the resolved record, with its file in
\* the install directory; a completed removal leaves neither the entry nor
\* the file.
C8_InstallRemoveRoundTrip ==
  /\ (pc = "done" /\ cmd = "install") =>
       \A k \in 1..Len(plan) :
         plan[k].project_id \notin Keys(start.manifest.packages)
           => /\ Cardinality(Entries(manifest.packages, plan[k].project_id)) = 1
              /\ Lookup(manifest.packages, plan[k].project_id) = plan[k]
              /\ ArtifactPath(plan[k], env.core) \in files
  /\ (pc = "done" /\ cmd = "uninstall") =>
       \A k \in 1..Len(plan) :
         /\ plan[k].project_id \notin InstalledKeys
         /\ ArtifactPath(plan[k], env.core) \notin files

\* A removal that deleted an entry and its file has completed.
C8_Witness ==
  /\ pc = "done"
  /\ cmd = "uninstall"
  /\ \E k \in Ops("remove") :
       /\ log[k].removed # {}
       /\ log[k].pid \in Keys(start.manifest.packages)

\* C9: an install whose every recorded package was already in the manifest
\* with the same record leaves the manifest as it was; the manifest never
\* holds two records for one project_id.
C9_InstallIdempotent ==
  /\ \A pid \in InstalledKeys : Cardinality(Entries(manifest.packages, pid)) = 1
  /\ (/\ pc = "done"
      /\ cmd = "install"
      /\ \A pid \in Pids("add") :
           /\ pid \in Keys(start.manifest.packages)
           /\ Lookup(start.manifest.packages, pid)
                = Lookup(manifest.packages, pid))
       => manifest = start.manifest

\* A completed install of packages that were all installed before, one of
\* them not the last entry of the manifest.
C9_Witness ==
  /\ pc = "done"
  /\ cmd = "install"
  /\ Pids("add") # {}
  /\ Pids("add") \subseteq Keys(start.manifest.packages)
  /\ manifest.packages[Len(manifest.packages)].project_id \notin Pids("add")

ExactName(p, query) ==
  lower(query) = lower(Get(p, "title", Get(p, "name", <<>>)))

NameContains(p, query) ==
  Contains(lower(Get(p, "title", Get(p, "name", <<>>))), lower(query))

\* C10: for each removal query an entry whose name equals the query is
\* chosen over entries that only contain it, which are chosen over entries
\* that match by slug alone.
C10_MatchPriority ==
  (cmd = "uninstall" /\ pc = "u_confirm") =>
    \A q \in 1..Len(args) :
      LET packages == manifest.packages
          found == Found(packages, args[q])
          ks == 1..Len(packages)
      IN /\ (\E k \in ks : ExactName(packages[k], args[q]))
              => ExactName(found, args[q])
         /\ (\E k \in ks : NameContains(packages[k], args[q]))
              => NameContains(found, args[q])

\* C11: a command whose plan is empty ends with exit code 1, before any
\* confirmation, and leaves the manifest file, the artifact files and the
\* directories as they were: nothing is created or modified.
C11_EmptyPlanNoSideEffects ==
  pc = "failed" => /\ plan = <<>>
                   /\ ExitCode(pc) = 1
                   /\ Disk = start

\* Request number i was searched for.
Answered(i) == \E k \in Ops("search") : log[k].request = i

\* The release that request number i resolves to, given the registry's
\* answer to it; None when the search had no hit, the registry failed or no
\* release is compatible.
Resolution(i) ==
  LET hits == search_plugins(args[i], env.core).hits
      answer == log[CHOOSE k \in Ops("search") : log[k].request = i]
  IN IF ~Answered(i) \/ hits = <<>> \/ ~answer.hit THEN None
     ELSE get_plugin(ListReleases(hits[1].project_id,
                                  COMPATIBILITY_MAP[env.core], answer.sc),
                     env.version)

Position(pid) == CHOOSE k \in 1..Len(plan) : plan[k].project_id = pid

PlanIds == {plan[k].project_id : k \in 1..Len(plan)}

\* C13: every package recorded or written by an install is an item of the
\* plan that was built and shown before the confirmation.
C13_InstalledWasConfirmed ==
  cmd = "install" => (Pids("add") \cup Pids("write")) \subseteq PlanIds

\* The projects that some plan item lists as a required dependency.
DirectRequired ==
  {d.project_id :
     d \in {dep \in UNION {SeqToSet(plan[k].dependencies) : k \in 1..Len(plan)} :
              /\ "project_id" \in DOMAIN dep
              /\ dep.dependency_type = "required"}}

\* C15: one install records and writes only accepted primary requests and
\* the projects an accepted primary lists as required dependencies: no
\* dependency of a dependency, no optional dependency, no dependency
\* without a project_id.
C15_OneLevelExpansion ==
  cmd = "install" =>
    (Pids("add") \cup Pids("write")) \subseteq (PlanIds \cup DirectRequired)

\* P1 alone was installed with its required P2; P3, which P2 requires and
\* P1 lists as optional, was not.
C15_Witness ==
  /\ pc = "done"
  /\ cmd = "install"
  /\ PlanIds = {"P1"}
  /\ Pids("write") = {"P1", "P2"}
  /\ env.version = <<>>

\* The game version strings of release i at or below the target.
Floors(i) ==
  {j \in 1..Len(versions[i].game_versions) :
     AtOrBelowTarget(versions[i].game_versions[j])}

\* Release i holds a game version at or below the target that no game
\* version at or below the target, of any release, exceeds.
HoldsGreatestFloor(i) ==
  \E j \in Floors(i) :
    \A h \in 1..Len(versions) :
      \A g \in Floors(h) :
        ~VersionLess(parse_version(versions[i].game_versions[j]),
                     parse_version(versions[h].game_versions[g]))

\* C14: with no exact match, get_plugin returns the release holding the
\* greatest game version that does not exceed the target, the first such
\* release in list order when several hold it.
C14_ClosestFloor ==
  (/\ Resolved
   /\ \A i \in 1..Len(versions) : ~ListsTarget(versions[i])
   /\ \E i \in 1..Len(versions) : Floors(i) # {})
    => result = versions[CHOOSE i \in 1..Len(versions) :
                           /\ HoldsGreatestFloor(i)
                           /\ \A h \in 1..(i - 1) : ~HoldsGreatestFloor(h)]

\* Two releases hold the greatest floor version, the first of them also a
\* smaller one; the first was returned.
C14_Witness ==
  /\ Resolved
  /\ Len(versions) = 2
  /\ \A i \in 1..2 : ~ListsTarget(versions[i])
  /\ HoldsGreatestFloor(1)
  /\ HoldsGreatestFloor(2)
  /\ Cardinality({parse_version(versions[1].game_versions[j]) : j \in Floors(1)}) = 2
  /\ result = versions[1]

\* The release list with every game version string that fails to parse
\* deleted.
Parses(gv) == parse_version(gv) # InvalidVersion

WithoutUnparsable ==
  [k \in 1..Len(versions) |->
     [versions[k] EXCEPT !.game_versions = SelectSeq(@, Parses)]]

\* Which release a result is (its id), or the result itself when it is none.
Outcome(r) == IF "id" \in DOMAIN r THEN [id |-> r.id] ELSE r

\* C17: get_plugin returns the same release (or the same absence of one) as
\* it does on the release list with the unparsable game version strings
\* deleted.
C17_UnparsableSkipped ==
  result # Pending
    => Outcome(result)
         = Outcome(get_plugin([status_code |-> status_code,
                               json |-> WithoutUnparsable], target))

\* The first release lists an unparsable string before the string that
\* decides the answer.
C17_Witness ==
  /\ Resolved
  /\ parse_version(target) # InvalidVersion
  /\ Len(versions) = 2
  /\ Len(versions[1].game_versions) = 2
  /\ ~Parses(versions[1].game_versions[1])
  /\ Parses(versions[1].game_versions[2])
  /\ result = versions[1]

\* C18: with an empty target and a non-empty release list get_plugin
\* returns the first release, whatever its game versions; with an empty
\* release list or an unsuccessful response it returns None.
C18_EmptyTargetFirstRelease ==
  result # Pending
    => /\ (status_code # 200 \/ versions = <<>>) => result = None
       /\ (status_code = 200 /\ versions # <<>> /\ target = <<>>)
            => result = versions[1]

\* An empty target, a first release with no parsable game version and a
\* second with one: the first was returned.
C18_Witness ==
  /\ result # Pending
  /\ status_code = 200
  /\ target = <<>>
  /\ Len(versions) = 2
  /\ \A j \in 1..Len(versions[1].game_versions) :
       ~Parses(versions[1].game_versions[j])
  /\ \E j \in 1..Len(versions[2].game_versions) :
       Parses(versions[2].game_versions[j])
  /\ result = versions[1]

\* C16: a removal never ends by an exception, and every package handed to
\* remove_package is out of the manifest afterwards, whether or not its
\* artifact file existed.
C16_RemoveMissingArtifact ==
  cmd = "uninstall" =>
    /\ pc # "crashed"
    /\ \A k \in Ops("remove") : log[k].pid \notin InstalledKeys

\* The first removal of a completed command found its package in the
\* manifest and no artifact file to delete.
C16_Witness ==
  /\ pc = "done"
  /\ cmd = "uninstall"
  /\ log[1].pid \in Keys(start.manifest.packages)
  /\ ArtifactPath(Lookup(start.manifest.packages, log[1].pid), env.core)
       \notin start.files
  /\ log[1].removed = {}
  /\ log[1].pid \notin InstalledKeys

\* The manifest entry of a project, if any.
Entry(m, pid) ==
  IF pid \in Keys(m.packages) THEN Lookup(m.packages, pid) ELSE NoPackage

\* The step appended an add_package or remove_package of pid to the log.
Touches(pid) ==
  /\ Len(log') = Len(log) + 1
  /\ log'[Len(log')].op \in {"add", "remove"}
  /\ log'[Len(log')].pid = pid

\* C19: a step changes the manifest entry of a project only by add_package
\* or remove_package of that project, and deletes a file only by
\* remove_package of a project whose manifest record names that file.
C19_ManifestFrame ==
  [][/\ \A pid \in Projects :
          Entry(manifest', pid) # Entry(manifest, pid) => Touches(pid)
     /\ \A f \in files \ files' :
          \E pid \in Keys(manifest.packages) :
            /\ Touches(pid)
            /\ log'[Len(log')].op = "remove"
            /\ f = ArtifactPath(Lookup(manifest.packages, pid), env.core)]_vars

\* A removal deleted an entry and its file while another entry, not the
\* last of the manifest before it, and another file stayed.
C19_Witness ==
  /\ cmd = "uninstall"
  /\ Len(log) = 1
  /\ log[1].removed # {}
  /\ manifest.packages # <<>>
  /\ files # {}
  /\ start.manifest.packages[Len(start.manifest.packages)].project_id
       # log[1].pid

\* C20: remove_package for a project_id that is no longer in the manifest
\* changes neither the manifest file nor the artifacts nor the
\* directories and raises nothing: the removal loop goes on to the next
\* item.
C20_RepeatedRemovalNoOp ==
  [][(/\ pc = "u_remove"
      /\ idx <= Len(plan)
      /\ plan[idx].project_id \notin Keys(manifest.packages))
       => /\ manifest' = manifest
          /\ files' = files
          /\ dirs' = dirs
          /\ pc' = "u_remove"
          /\ idx' = idx + 1]_vars

\* Two queries matched the same package and the command completed.
C20_Witness ==
  /\ pc = "done"
  /\ cmd = "uninstall"
  /\ Len(log) = 2
  /\ log[1].pid = log[2].pid
  /\ log[1].removed # {}

====
